---- MODULE Spec2Model ----
(***************************************************************************)
(* Model of fram_store::Persistent<T> (src/fram/main/fram_store.h) on top  *)
(* of the MB85RS64 driver FRAM (src/fram/main/fram.cpp).                   *)
(*                                                                         *)
(* The FRAM media is modelled slot by slot: each slot holds a Header      *)
(* record and a payload (a sequence of bytes).  32-bit quantities that    *)
(* can exceed 2^31 (seq, crc) are pairs <<hi, lo>> of 16-bit limbs, so    *)
(* that the unsigned wrap-around and the CRC are computed exactly.        *)
(***************************************************************************)
EXTENDS Integers, Sequences, FiniteSets, TLC

(***************************************************************************)
(* Bounds of the model.                                                    *)
(***************************************************************************)
MaxSlots == 2        \* slots_ is drawn from 1..MaxSlots
MaxOps == 4          \* number of API calls and corruptions in one behaviour
MaxValue == 1        \* callers store the counters 0..MaxValue
MaxCrashes == 1      \* number of power losses in one behaviour
AnyOps == 2          \* number of API calls on arbitrary prior media
MaxFaults == 1       \* failed SPI transfers and corruptions in one behaviour
HarshOps == 3        \* number of API calls when writes fail and power is lost

(***************************************************************************)
(* Program constants.                                                      *)
(***************************************************************************)
STORE_MAGIC == 1179795789      \* 0x4652414D
FRAM_SIZE_BYTES == 8192
AddrMod == 65536               \* FRAM::addr_t is uint16_t
HeaderSize == 20               \* sizeof(Header), packed
PayloadSize == 2               \* sizeof(T), for a T of two bytes
BASE_ADDR == 512               \* 0x0200
version_ == 1

ESP_OK == "ESP_OK"
ESP_FAIL == "ESP_FAIL"
ESP_ERR_NOT_FOUND == "ESP_ERR_NOT_FOUND"
ESP_ERR_INVALID_ARG == "ESP_ERR_INVALID_ARG"

slot_size_ == HeaderSize + PayloadSize

(***************************************************************************)
(* uint32_t as two 16-bit limbs <<hi, lo>>.                                *)
(***************************************************************************)
U32Max == <<65535, 65535>>
U32(n) == <<n \div 65536, n % 65536>>

\* a ^ b on n-bit operands, bit by bit
RECURSIVE XorBits(_, _, _)
XorBits(a, b, n) ==
    IF n = 0 THEN 0
    ELSE ((a + b) % 2) + 2 * XorBits(a \div 2, b \div 2, n - 1)

\* a ^ b on bytes, tabulated once
XorNibble == [a \in 0..15 |-> [b \in 0..15 |-> XorBits(a, b, 4)]]
XorByte ==
    [a \in 0..255 |->
        [b \in 0..255 |->
            16 * XorNibble[a \div 16][b \div 16] + XorNibble[a % 16][b % 16]]]

Xor8(a, b) == XorByte[a][b]
Xor16(a, b) == 256 * Xor8(a \div 256, b \div 256) + Xor8(a % 256, b % 256)
Xor32(x, y) == <<Xor16(x[1], y[1]), Xor16(x[2], y[2])>>
Shr1(c) == <<c[1] \div 2, (c[2] \div 2) + (c[1] % 2) * 32768>>
Shr8(c) == <<c[1] \div 256, (c[2] \div 256) + (c[1] % 256) * 256>>

\* a comparison written the wrong way round
SeqLt(a, b) == a[1] < b[1] \/ (a[1] = b[1] /\ a[2] < b[2])

\* h.seq > cur_best.seq on uint32_t
SeqGt(a, b) == a[1] > b[1] \/ (a[1] = b[1] /\ a[2] > b[2])

\* an increment that stays at the highest value instead of wrapping
SeqIncSaturating(s) ==
    IF s[2] < 65535 THEN <<s[1], s[2] + 1>>
    ELSE IF s[1] < 65535 THEN <<s[1] + 1, 0>>
    ELSE s

\* cur_best.seq + 1 on uint32_t (wraps to 0)
SeqInc(s) ==
    IF s[2] < 65535 THEN <<s[1], s[2] + 1>>
    ELSE IF s[1] < 65535 THEN <<s[1] + 1, 0>>
    ELSE <<0, 0>>

(***************************************************************************)
(* crc32: table-driven, reflected polynomial 0xEDB88320.                   *)
(***************************************************************************)
Poly == <<60856, 33568>>       \* 0xEDB8 8320

RECURSIVE TableEntry(_, _)
TableEntry(c, j) ==
    IF j = 0 THEN c
    ELSE TableEntry(IF c[2] % 2 = 1 THEN Xor32(Poly, Shr1(c)) ELSE Shr1(c), j - 1)

table == [i \in 0..255 |-> TableEntry(<<0, i>>, 8)]

RECURSIVE CrcLoop(_, _, _)
CrcLoop(c, p, i) ==
    IF i > Len(p) THEN c
    ELSE CrcLoop(Xor32(table[Xor8(c[2] % 256, p[i])], Shr8(c)), p, i + 1)

crc32(p) == Xor32(CrcLoop(U32Max, p, 1), U32Max)

(***************************************************************************)
(* Values of T, as their bytes (little-endian counter).                    *)
(***************************************************************************)
ValueOf(k) == [i \in 1..PayloadSize |-> IF i = 1 THEN k ELSE 0]
Values == {ValueOf(k) : k \in 0..MaxValue}
NoValue == <<>>                \* a T nobody has assigned yet

Header(m, v, r, s, l, c) ==
    [magic |-> m, version |-> v, reserved |-> r, seq |-> s, len |-> l, crc |-> c]

ZeroHeader == Header(0, 0, 0, <<0, 0>>, 0, <<0, 0>>)
BlankSlot == [hdr |-> ZeroHeader, payload |-> ValueOf(0)]

(***************************************************************************)
(* FRAM driver (fram.cpp).  A call is logged as                            *)
(* [cmd, addr, len, err, spi]; spi lists the SPI commands it transmitted.  *)
(***************************************************************************)
\* lines 81 and 107: a = base_ + static_cast<FRAM::addr_t>(i * slot_size_)
SlotAddr(i) == (BASE_ADDR + ((i * slot_size_) % AddrMod)) % AddrMod

\* the bytes of the device in [addr, addr + len): a slot's header or payload
Region(m, n, addr, len) ==
    LET i == (addr - BASE_ADDR) \div slot_size_
        off == (addr - BASE_ADDR) % slot_size_
    IN  IF addr >= BASE_ADDR /\ i < n /\ off = 0 /\ len = HeaderSize THEN m[i].hdr
        ELSE IF addr >= BASE_ADDR /\ i < n /\ off = HeaderSize /\ len = PayloadSize
             THEN m[i].payload
        ELSE [j \in 1..len |-> 0]

\* the device after data has been written to [addr, addr + len)
Written(m, n, addr, len, data) ==
    LET i == (addr - BASE_ADDR) \div slot_size_
        off == (addr - BASE_ADDR) % slot_size_
    IN  IF addr >= BASE_ADDR /\ i < n /\ off = 0 /\ len = HeaderSize
        THEN [m EXCEPT ![i].hdr = data]
        ELSE IF addr >= BASE_ADDR /\ i < n /\ off = HeaderSize /\ len = PayloadSize
             THEN [m EXCEPT ![i].payload = data]
        ELSE m

\* (uint32_t)addr + len, for a size_t len of 32 bits given as <<hi, lo>>
AddrPlusLen(addr, len) ==
    LET lo == addr + len[2]
    IN  <<(len[1] + (lo \div 65536)) % 65536, lo % 65536>>

\* fram.cpp lines 117-118 and 138-139: buf && len, and
\* (uint32_t)addr + len > FRAM_SIZE_BYTES fails; buf: the pointer is not null
ArgsOk(addr, buf, len) ==
    /\ buf
    /\ len # U32(0)
    /\ ~SeqGt(AddrPlusLen(addr, len), U32(FRAM_SIZE_BYTES))

\* FRAM::read; fail: spi_device_transmit returns an error
FramRead(m, n, addr, buf, len, fail) ==
    IF ~ArgsOk(addr, buf, U32(len))
    THEN [err |-> ESP_ERR_INVALID_ARG, filled |-> FALSE, data |-> <<>>,
          log |-> [cmd |-> "read", addr |-> addr, len |-> len,
                   err |-> ESP_ERR_INVALID_ARG, spi |-> <<>>]]
    ELSE IF fail
    THEN [err |-> ESP_FAIL, filled |-> FALSE, data |-> <<>>,
          log |-> [cmd |-> "read", addr |-> addr, len |-> len,
                   err |-> ESP_FAIL, spi |-> <<"READ">>]]
    ELSE [err |-> ESP_OK, filled |-> TRUE, data |-> Region(m, n, addr, len),
          log |-> [cmd |-> "read", addr |-> addr, len |-> len,
                   err |-> ESP_OK, spi |-> <<"READ">>]]

\* what can happen inside FRAM::write: every transfer succeeds, or WREN, the
\* WRITE transaction or WRDI returns an error
WriteOutcomes == {"ok", "wren_fails", "write_fails", "wrdi_fails"}

\* FRAM::write
FramWrite(m, n, addr, buf, len, data, outcome) ==
    IF ~ArgsOk(addr, buf, U32(len))
    THEN [err |-> ESP_ERR_INVALID_ARG, media |-> m,
          log |-> [cmd |-> "write", addr |-> addr, len |-> len,
                   err |-> ESP_ERR_INVALID_ARG, spi |-> <<>>]]
    ELSE IF outcome = "wren_fails"
    THEN [err |-> ESP_FAIL, media |-> m,
          log |-> [cmd |-> "write", addr |-> addr, len |-> len,
                   err |-> ESP_FAIL, spi |-> <<"WREN">>]]
    ELSE IF outcome = "write_fails"
    THEN [err |-> ESP_FAIL, media |-> m,
          log |-> [cmd |-> "write", addr |-> addr, len |-> len,
                   err |-> ESP_FAIL, spi |-> <<"WREN", "WRITE">>]]
    ELSE IF outcome = "wrdi_fails"
    THEN [err |-> ESP_FAIL, media |-> Written(m, n, addr, len, data),
          log |-> [cmd |-> "write", addr |-> addr, len |-> len,
                   err |-> ESP_FAIL, spi |-> <<"WREN", "WRITE", "WRDI">>]]
    ELSE [err |-> ESP_OK, media |-> Written(m, n, addr, len, data),
          log |-> [cmd |-> "write", addr |-> addr, len |-> len,
                   err |-> ESP_OK, spi |-> <<"WREN", "WRITE", "WRDI">>]]

(***************************************************************************)
(* Persistent::load.  F is the set of positions (1st, 2nd, ... read of    *)
(* the call) at which FRAM::read fails.                                    *)
(***************************************************************************)
\* a header check that takes records of every version
MagicMatch(h) == h.magic = STORE_MAGIC

\* lines 84 and 110: h.magic == STORE_MAGIC && h.version == version_
MagicVersionMatch(h) == h.magic = STORE_MAGIC /\ h.version = version_

\* a load that accepts the payload without comparing checksums
CrcUnchecked(data, h) == TRUE

\* line 87: crc32(buf.data(), buf.size()) != h.crc fails
CrcMatches(data, h) == crc32(data) = h.crc

RECURSIVE LoadScan(_, _, _, _, _)
LoadScan(m, n, F, i, st) ==
    IF i >= n THEN st
    ELSE
      LET a == SlotAddr(i)
          r1 == FramRead(m, n, a, TRUE, HeaderSize, (Len(st.io) + 1) \in F)
          io1 == Append(st.io, r1.log)
          h == r1.data
      IN  IF r1.err # ESP_OK
          THEN LoadScan(m, n, F, i + 1, [st EXCEPT !.io = io1])
          ELSE IF ~MagicVersionMatch(h) \/ h.len # PayloadSize
          THEN LoadScan(m, n, F, i + 1, [st EXCEPT !.io = io1])
          ELSE
            LET r2 == FramRead(m, n, (a + HeaderSize) % AddrMod, TRUE, h.len,
                               (Len(io1) + 1) \in F)
                io2 == Append(io1, r2.log)
            IN  IF r2.err # ESP_OK
                THEN LoadScan(m, n, F, i + 1, [st EXCEPT !.io = io2])
                ELSE IF ~CrcMatches(r2.data, h)
                THEN LoadScan(m, n, F, i + 1, [st EXCEPT !.io = io2])
                ELSE IF ~st.found \/ SeqGt(h.seq, st.best_hdr.seq)
                THEN LoadScan(m, n, F, i + 1,
                              [found |-> TRUE, best_hdr |-> h, best_addr |-> a,
                               io |-> io2])
                ELSE LoadScan(m, n, F, i + 1, [st EXCEPT !.io = io2])

\* the result of load(dst): [err, dst, io]
load(m, n, F, d) ==
    LET st == LoadScan(m, n, F, 0,
                       [found |-> FALSE, best_hdr |-> ZeroHeader, best_addr |-> 0,
                        io |-> <<>>])
    IN  IF ~st.found
        THEN [err |-> ESP_ERR_NOT_FOUND, dst |-> d, io |-> st.io]
        ELSE
          LET r == FramRead(m, n, (st.best_addr + HeaderSize) % AddrMod, TRUE,
                            PayloadSize, (Len(st.io) + 1) \in F)
          IN  [err |-> r.err,
               dst |-> IF r.err = ESP_OK THEN r.data ELSE d,
               io |-> Append(st.io, r.log)]

(***************************************************************************)
(* Persistent::store_immediate, lines 102-130: the scan, next_seq, next   *)
(* and the new header.  g is what the local Header h holds where a header  *)
(* read failed and left it unfilled.                                       *)
(***************************************************************************)
RECURSIVE StoreScan(_, _, _, _, _, _)
StoreScan(m, n, F, g, i, st) ==
    IF i >= n THEN st
    ELSE
      LET a == SlotAddr(i)
          r == FramRead(m, n, a, TRUE, HeaderSize, (Len(st.io) + 1) \in F)
          h == IF r.filled THEN r.data ELSE g
          io1 == Append(st.io, r.log)
      IN  IF MagicVersionMatch(h)
             /\ (~st.found \/ SeqGt(h.seq, st.cur_best.seq))
          THEN StoreScan(m, n, F, g, i + 1,
                         [found |-> TRUE, cur_best |-> h, best_addr |-> a, io |-> io1])
          ELSE StoreScan(m, n, F, g, i + 1, [st EXCEPT !.io = io1])

\* line 118: uint32_t next_seq = found ? (cur_best.seq + 1) : 1
NextSeq(found, seq) == IF found THEN SeqInc(seq) ELSE U32(1)

\* a store_immediate that rewrites the best slot instead of the one after it
NextSlotInPlace(found, best_addr, n) == IF found THEN best_addr ELSE BASE_ADDR

\* a store_immediate that forgets the "% slots_"
NextSlotNoWrap(found, best_addr, n) ==
    IF found
    THEN ((((best_addr - BASE_ADDR) \div slot_size_ + 1) % AddrMod)
          * slot_size_ + BASE_ADDR) % AddrMod
    ELSE BASE_ADDR

\* lines 120-122: the slot after best_addr, circularly
NextSlot(found, best_addr, n) ==
    IF found
    THEN (((((best_addr - BASE_ADDR) \div slot_size_ + 1) % n) % AddrMod)
          * slot_size_ + BASE_ADDR) % AddrMod
    ELSE BASE_ADDR

StorePlan(m, n, F, g, v) ==
    LET st == StoreScan(m, n, F, g, 0,
                        [found |-> FALSE, cur_best |-> ZeroHeader,
                         best_addr |-> BASE_ADDR, io |-> <<>>])
    IN  [next |-> NextSlot(st.found, st.best_addr, n),
         h |-> Header(STORE_MAGIC, version_, 0, NextSeq(st.found, st.cur_best.seq),
                      PayloadSize, crc32(v)),
         io |-> st.io]

VARIABLES
    slots_,      \* Persistent::slots_
    media,       \* FRAM contents: slot index -> [hdr, payload]
    cache_,      \* Persistent::cache_
    dirty_,      \* Persistent::dirty_
    last_seq_,   \* Persistent::last_seq_
    pc,          \* position inside store_immediate: "idle", "payload", "header"
    op,          \* the API call in progress or last finished
    src,         \* store_immediate's argument
    hdr,         \* store_immediate's local Header h (lines 124-130)
    next,        \* store_immediate's local next
    ret,         \* return value of the last finished call ("none" while running)
    dst,         \* the caller's variable load writes to
    io,          \* FRAM::read / FRAM::write calls issued by the current call
    pre,         \* history: the state in which the current call began
    hist,        \* history: see NoHist
    budget,      \* API calls left
    crashes,     \* power losses so far
    faults,      \* failed SPI transfers and media corruptions so far
    commits,     \* history: number of store_immediate calls that returned ESP_OK
    ld           \* a load running in another task: its position and locals

vars == <<slots_, media, cache_, dirty_, last_seq_, pc, op, src, hdr, next,
          ret, dst, io, pre, hist, budget, crashes, faults, commits, ld>>

(***************************************************************************)
(* What the documentation calls valid and authoritative (spec section 3),  *)
(* stated on the media contents, independently of load's scan.             *)
(***************************************************************************)
Valid(m, i) ==
    /\ m[i].hdr.magic = STORE_MAGIC
    /\ m[i].hdr.version = version_
    /\ m[i].hdr.len = PayloadSize
    /\ m[i].hdr.crc = crc32(m[i].payload)

ValidSlots(m, n) == {i \in 0..(n - 1) : Valid(m, i)}

\* seq a is numerically higher than seq b
Higher(a, b) == IF a[1] = b[1] THEN a[2] > b[2] ELSE a[1] > b[1]

\* the slots of S no other slot of S has a higher seq than
Newest(m, S) == {i \in S : \A j \in S : ~Higher(m[j].hdr.seq, m[i].hdr.seq)}

\* the authoritative record among the slots S
AuthOf(m, S) ==
    IF S = {}
    THEN [found |-> FALSE, seq |-> U32(0), slots |-> {}, values |-> {}]
    ELSE [found |-> TRUE,
          seq |-> m[CHOOSE i \in Newest(m, S) : TRUE].hdr.seq,
          slots |-> Newest(m, S),
          values |-> {m[i].payload : i \in Newest(m, S)}]

SlotIndex(addr) == (addr - BASE_ADDR) \div slot_size_

\* the FRAM::write and FRAM::read calls in the log of the current call
Writes == SelectSeq(io, LAMBDA e : e.cmd = "write")
Reads == SelectSeq(io, LAMBDA e : e.cmd = "read")

\* werr: what the FRAM::write calls of the call returned, in order
Snapshot ==
    [media |-> media, cache |-> cache_, dirty |-> dirty_, commits |-> commits,
     op |-> op, ret |-> ret, werr |-> [k \in 1..Len(Writes) |-> Writes[k].err],
     last_seq |-> last_seq_]

\* auth: the authoritative record when the latest store_immediate began, or
\*       after the latest corruption what is authoritative among the other slots;
\* dk, dv: the number of store_deferred calls in a row and the last one's value;
\* hit, hit_valid: the slot the latest corruption changed, and whether it was valid;
\* def, dc: store_deferred has been called since construction with no flush
\*       having returned ESP_OK on a clean store since, and the number of commits
\*       at the latest store_deferred
NoHist ==
    [auth |-> AuthOf(<<>>, {}), dk |-> 0, dv |-> NoValue, hit |-> -1,
     hit_valid |-> FALSE, def |-> FALSE, dc |-> 0]

\* no load is running in another task; ver: the payload whose crc the scan
\* verified against best_hdr
NoLoad ==
    [pc |-> "idle", i |-> 0, found |-> FALSE, best_hdr |-> ZeroHeader,
     best_addr |-> 0, h |-> ZeroHeader, ver |-> NoValue, ret |-> "none",
     dst |-> NoValue]

(***************************************************************************)
(* Initial states.                                                         *)
(***************************************************************************)
\* Persistent::Persistent, with nothing called yet
Constructed(n) ==
    /\ slots_ = n
    /\ cache_ = NoValue
    /\ dirty_ = FALSE
    /\ last_seq_ = U32(0)
    /\ pc = "idle"
    /\ op = "none"
    /\ src = NoValue
    /\ hdr = ZeroHeader
    /\ next = BASE_ADDR
    /\ ret = "none"
    /\ dst = NoValue
    /\ io = <<>>
    /\ hist = NoHist
    /\ crashes = 0
    /\ faults = 0
    /\ commits = 0
    /\ ld = NoLoad

\* a store constructed over blank (zero-filled) media
Init ==
    /\ \E n \in 1..MaxSlots : Constructed(n)
    /\ media = [i \in 0..(slots_ - 1) |-> BlankSlot]
    /\ pre = Snapshot
    /\ budget = MaxOps

\* what a slot may hold before the store is first used: nothing, a record of
\* this store (old, or with the highest seq a header can carry), a record whose
\* payload does not match its crc, whose len is wrong, or of another version
PriorSeqs == {U32(1), U32(2), U32Max}
PriorValues == {ValueOf(0), ValueOf(1)}
PriorSlots ==
    {BlankSlot}
    \cup {[hdr |-> Header(STORE_MAGIC, version_, 0, s, PayloadSize, crc32(v)),
           payload |-> v] : s \in PriorSeqs, v \in PriorValues}
    \cup {[hdr |-> Header(STORE_MAGIC, version_, 0, U32(2), PayloadSize,
                          crc32(ValueOf(0))),
           payload |-> ValueOf(1)],
          [hdr |-> Header(STORE_MAGIC, version_, 0, U32(2), PayloadSize + 1,
                          crc32(ValueOf(0))),
           payload |-> ValueOf(0)],
          [hdr |-> Header(STORE_MAGIC, version_ + 1, 0, U32(2), PayloadSize,
                          crc32(ValueOf(0))),
           payload |-> ValueOf(0)]}

\* a store constructed over media with arbitrary prior contents
InitAny ==
    /\ \E n \in 1..MaxSlots : Constructed(n)
    /\ media \in [0..(slots_ - 1) -> PriorSlots]
    /\ pre = Snapshot
    /\ budget = AnyOps

(***************************************************************************)
(* The API calls.  store_immediate runs in three steps: the scan (lines    *)
(* 102-130), the payload write (133-134) and the header write (135-142),   *)
(* so that a power loss can fall between them.                             *)
(***************************************************************************)
Idle == pc = "idle" /\ budget > 0

\* a load that takes the loaded value into the deferred cache
LoadIntoCache(F) ==
    /\ Idle
    /\ LET r == load(media, slots_, F, dst)
       IN  /\ ret' = r.err
           /\ dst' = r.dst
           /\ io' = r.io
           /\ cache_' = r.dst
    /\ op' = "load"
    /\ pre' = Snapshot
    /\ hist' = [hist EXCEPT !.dk = 0]
    /\ budget' = budget - 1
    /\ UNCHANGED <<ld, slots_, media, dirty_, last_seq_, pc, src, hdr, next,
                   crashes, commits>>

\* load(dst); F: the reads of the call that fail
Load(F) ==
    /\ Idle
    /\ LET r == load(media, slots_, F, dst)
       IN  /\ ret' = r.err
           /\ dst' = r.dst
           /\ io' = r.io
    /\ op' = "load"
    /\ pre' = Snapshot
    /\ hist' = [hist EXCEPT !.dk = 0]
    /\ budget' = budget - 1
    /\ UNCHANGED <<ld, slots_, media, cache_, dirty_, last_seq_, pc, src, hdr, next,
                   crashes, commits>>

\* store_immediate(v), lines 102-130, entered from the caller or from flush
Scan(name, v, F, g) ==
    /\ LET plan == StorePlan(media, slots_, F, g, v)
       IN  /\ hdr' = plan.h
           /\ next' = plan.next
           /\ io' = plan.io
    /\ src' = v
    /\ op' = name
    /\ ret' = "none"
    /\ pc' = "payload"
    /\ pre' = Snapshot
    /\ hist' = [hist EXCEPT !.auth = AuthOf(media, ValidSlots(media, slots_)),
                            !.dk = IF name = "flush" THEN @ ELSE 0]
    /\ budget' = budget - 1
    /\ UNCHANGED <<ld, slots_, media, cache_, dirty_, last_seq_, dst, crashes, commits>>

\* a store_immediate that goes on to the header write whatever the payload
\* write returned
WritePayloadUnchecked(outcome) ==
    /\ pc = "payload"
    /\ LET w == FramWrite(media, slots_, (next + HeaderSize) % AddrMod, TRUE,
                          PayloadSize, src, outcome)
       IN  /\ media' = w.media
           /\ io' = Append(io, w.log)
    /\ ret' = ret
    /\ pc' = "header"
    /\ UNCHANGED <<ld, slots_, cache_, dirty_, last_seq_, op, src, hdr, next, dst, pre,
                   hist, budget, crashes, commits>>

\* a payload write at the slot's first byte, sizeof(Header) left out
WritePayloadAtSlotStart(outcome) ==
    /\ pc = "payload"
    /\ LET w == FramWrite(media, slots_, next, TRUE, PayloadSize, src, outcome)
       IN  /\ media' = w.media
           /\ io' = Append(io, w.log)
           /\ IF w.err # ESP_OK
              THEN ret' = w.err /\ pc' = "idle"
              ELSE ret' = ret /\ pc' = "header"
    /\ UNCHANGED <<ld, slots_, cache_, dirty_, last_seq_, op, src, hdr, next, dst, pre,
                   hist, budget, crashes, commits>>

\* lines 133-134: err = fram_.write(next + sizeof(Header), &src, sizeof(T))
WritePayload(outcome) ==
    /\ pc = "payload"
    /\ LET w == FramWrite(media, slots_, (next + HeaderSize) % AddrMod, TRUE,
                          PayloadSize, src, outcome)
       IN  /\ media' = w.media
           /\ io' = Append(io, w.log)
           /\ IF w.err # ESP_OK
              THEN ret' = w.err /\ pc' = "idle"
              ELSE ret' = ret /\ pc' = "header"
    /\ UNCHANGED <<ld, slots_, cache_, dirty_, last_seq_, op, src, hdr, next, dst, pre,
                   hist, budget, crashes, commits>>

\* a header write that marks the store clean whatever FRAM::write returned
WriteHeaderClearsDirty(outcome) ==
    /\ pc = "header"
    /\ LET w == FramWrite(media, slots_, next, TRUE, HeaderSize, hdr, outcome)
       IN  /\ media' = w.media
           /\ io' = Append(io, w.log)
           /\ ret' = w.err
           /\ dirty_' = FALSE
           /\ IF w.err # ESP_OK
              THEN UNCHANGED <<cache_, last_seq_, commits>>
              ELSE /\ cache_' = src
                   /\ last_seq_' = hdr.seq
                   /\ commits' = commits + 1
    /\ pc' = "idle"
    /\ UNCHANGED <<ld, slots_, op, src, hdr, next, dst, pre, hist, budget, crashes>>

\* a header write after which store_immediate updates the cache and last_seq_
\* and leaves the dirty flag as it is
WriteHeaderKeepsFlag(outcome) ==
    /\ pc = "header"
    /\ LET w == FramWrite(media, slots_, next, TRUE, HeaderSize, hdr, outcome)
       IN  /\ media' = w.media
           /\ io' = Append(io, w.log)
           /\ ret' = w.err
           /\ IF w.err # ESP_OK
              THEN UNCHANGED <<cache_, last_seq_, commits>>
              ELSE /\ cache_' = src
                   /\ last_seq_' = hdr.seq
                   /\ commits' = commits + 1
    /\ pc' = "idle"
    /\ UNCHANGED <<ld, slots_, dirty_, op, src, hdr, next, dst, pre, hist, budget,
                   crashes>>

\* lines 135-142: err = fram_.write(next, &h, sizeof(h)), then the cache update
WriteHeader(outcome) ==
    /\ pc = "header"
    /\ LET w == FramWrite(media, slots_, next, TRUE, HeaderSize, hdr, outcome)
       IN  /\ media' = w.media
           /\ io' = Append(io, w.log)
           /\ ret' = w.err
           /\ IF w.err # ESP_OK
              THEN UNCHANGED <<cache_, dirty_, last_seq_, commits>>
              ELSE /\ cache_' = src
                   /\ dirty_' = FALSE
                   /\ last_seq_' = hdr.seq
                   /\ commits' = commits + 1
    /\ pc' = "idle"
    /\ UNCHANGED <<ld, slots_, op, src, hdr, next, dst, pre, hist, budget, crashes>>

\* store_immediate(v) with every read of its scan succeeding
StoreImmediate(v) ==
    /\ Idle
    /\ Scan("store_immediate", v, {}, ZeroHeader)
    /\ UNCHANGED faults

PayloadWritten == WritePayload("ok") /\ UNCHANGED faults

HeaderWritten == WriteHeader("ok") /\ UNCHANGED faults

\* a store_deferred that writes through to the FRAM
StoreDeferredWriteThrough(v) ==
    /\ Idle
    /\ Scan("store_deferred", v, {}, ZeroHeader)
    /\ UNCHANGED faults

\* a store_deferred that fills the cache and leaves the dirty flag as it is
StoreDeferredKeepsFlag(v) ==
    /\ Idle
    /\ cache_' = v
    /\ op' = "store_deferred"
    /\ ret' = "void"
    /\ io' = <<>>
    /\ pre' = Snapshot
    /\ hist' = [hist EXCEPT !.dk = @ + 1, !.dv = v, !.def = TRUE, !.dc = commits]
    /\ budget' = budget - 1
    /\ UNCHANGED <<ld, slots_, media, dirty_, last_seq_, pc, src, hdr, next, dst, crashes,
                   faults, commits>>

\* store_deferred(v)
StoreDeferred(v) ==
    /\ Idle
    /\ cache_' = v
    /\ dirty_' = TRUE
    /\ op' = "store_deferred"
    /\ ret' = "void"
    /\ io' = <<>>
    /\ pre' = Snapshot
    /\ hist' = [hist EXCEPT !.dk = @ + 1, !.dv = v, !.def = TRUE, !.dc = commits]
    /\ budget' = budget - 1
    /\ UNCHANGED <<ld, slots_, media, last_seq_, pc, src, hdr, next, dst, crashes, faults,
                   commits>>

\* a flush that commits the cache although it is clean
FlushCleanCommits ==
    /\ Idle
    /\ ~dirty_
    /\ Scan("flush", cache_, {}, ZeroHeader)
    /\ UNCHANGED faults

\* flush(): if (!dirty_) return ESP_OK
FlushClean ==
    /\ Idle
    /\ ~dirty_
    /\ op' = "flush"
    /\ ret' = ESP_OK
    /\ io' = <<>>
    /\ pre' = Snapshot
    /\ hist' = [hist EXCEPT !.dk = 0, !.def = FALSE]
    /\ budget' = budget - 1
    /\ UNCHANGED <<ld, slots_, media, cache_, dirty_, last_seq_, pc, src, hdr, next, dst,
                   crashes, faults, commits>>

\* flush(): return store_immediate(cache_)
FlushDirty ==
    /\ Idle
    /\ dirty_
    /\ Scan("flush", cache_, {}, ZeroHeader)
    /\ UNCHANGED faults

\* load(dst) with every read succeeding
LoadOk == Load({}) /\ UNCHANGED faults

\* power loss and restart: the FRAM keeps its contents, the RAM does not
Crash ==
    /\ crashes < MaxCrashes
    /\ op # "none"
    /\ crashes' = crashes + 1
    /\ op' = IF pc = "header" THEN "crash_torn" ELSE "crash"
    /\ cache_' = NoValue
    /\ dirty_' = FALSE
    /\ last_seq_' = U32(0)
    /\ pc' = "idle"
    /\ src' = NoValue
    /\ hdr' = ZeroHeader
    /\ next' = BASE_ADDR
    /\ ret' = "none"
    /\ dst' = NoValue
    /\ io' = <<>>
    /\ hist' = [hist EXCEPT !.dk = 0, !.def = FALSE]
    /\ UNCHANGED <<ld, slots_, media, pre, budget, faults, commits>>

\* the API calls
Calls ==
    \/ LoadOk
    \/ \E v \in Values : StoreImmediate(v)
    \/ PayloadWritten
    \/ HeaderWritten
    \/ \E v \in Values : StoreDeferred(v)
    \/ FlushClean
    \/ FlushDirty

Next == Calls \/ Crash

Spec == Init /\ [][Next]_vars

\* on arbitrary prior media: the calls that read or write the media
NextAny ==
    \/ LoadOk
    \/ \E v \in Values : StoreImmediate(v)
    \/ PayloadWritten
    \/ HeaderWritten

SpecAny == InitAny /\ [][NextAny]_vars

(***************************************************************************)
(* Faults: an SPI transfer of FRAM::write returns an error, or a byte of   *)
(* a payload changes on the media.                                         *)
(***************************************************************************)
PayloadWriteFails ==
    /\ faults < MaxFaults
    /\ \E o \in WriteOutcomes \ {"ok"} : WritePayload(o)
    /\ faults' = faults + 1

HeaderWriteFails ==
    /\ faults < MaxFaults
    /\ \E o \in WriteOutcomes \ {"ok"} : WriteHeader(o)
    /\ faults' = faults + 1

\* byte k of slot i's payload is xor-ed with x
CorruptMasks == {1, 128, 255}
Corrupt(i, k, x) ==
    /\ Idle
    /\ faults < MaxFaults
    /\ faults' = faults + 1
    /\ budget' = budget - 1
    /\ media' = [media EXCEPT ![i].payload[k] = Xor8(@, x)]
    /\ op' = "corrupt"
    /\ ret' = "none"
    /\ io' = <<>>
    /\ pre' = Snapshot
    /\ hist' = [hist EXCEPT !.auth = AuthOf(media, ValidSlots(media, slots_) \ {i}),
                            !.hit = i,
                            !.hit_valid = Valid(media, i),
                            !.dk = 0]
    /\ UNCHANGED <<ld, slots_, cache_, dirty_, last_seq_, pc, src, hdr, next, dst,
                   crashes, commits>>

NextFault == Calls \/ PayloadWriteFails \/ HeaderWriteFails

SpecFault == Init /\ [][NextFault]_vars

\* the header fields in the order the WRITE transfer sends them (lines 22-31)
HeaderFields == <<"magic", "version", "reserved", "seq", "len", "crc">>

\* header old after the first k fields of header new have reached the device
TornHeader(old, new, k) ==
    [f \in DOMAIN old |->
        IF \E j \in 1..k : HeaderFields[j] = f THEN new[f] ELSE old[f]]

\* power is lost during the header write, k fields of the header being written
CrashInHeaderWrite(k) ==
    /\ pc = "header"
    /\ crashes < MaxCrashes
    /\ crashes' = crashes + 1
    /\ media' = [media EXCEPT ![SlotIndex(next)].hdr = TornHeader(@, hdr, k)]
    /\ op' = "crash_torn"
    /\ cache_' = NoValue
    /\ dirty_' = FALSE
    /\ last_seq_' = U32(0)
    /\ pc' = "idle"
    /\ src' = NoValue
    /\ hdr' = ZeroHeader
    /\ next' = BASE_ADDR
    /\ ret' = "none"
    /\ dst' = NoValue
    /\ io' = <<>>
    /\ hist' = [hist EXCEPT !.dk = 0, !.def = FALSE]
    /\ UNCHANGED <<ld, slots_, pre, budget, faults, commits>>

\* the API calls with failing writes and power losses
NextHarsh ==
    \/ NextFault
    \/ Crash
    \/ \E k \in 1..(Len(HeaderFields) - 1) : CrashInHeaderWrite(k)

InitHarsh ==
    /\ \E n \in 1..MaxSlots : Constructed(n)
    /\ media = [i \in 0..(slots_ - 1) |-> BlankSlot]
    /\ pre = Snapshot
    /\ budget = HarshOps

SpecHarsh == InitHarsh /\ [][NextHarsh]_vars

NextCorrupt ==
    \/ NextAny
    \/ \E i \in 0..(slots_ - 1), k \in 1..PayloadSize, x \in CorruptMasks :
          Corrupt(i, k, x)

SpecCorrupt == Init /\ [][NextCorrupt]_vars

\* byte k of the payload of every slot of S is xor-ed with x
CorruptSlots(S, k, x) ==
    /\ pc = "idle"
    /\ faults < MaxFaults
    /\ faults' = faults + 1
    /\ media' = [i \in 0..(slots_ - 1) |->
                    IF i \in S
                    THEN [media[i] EXCEPT !.payload[k] = Xor8(@, x)]
                    ELSE media[i]]
    /\ op' = "corrupt_slots"
    /\ ret' = "none"
    /\ io' = <<>>
    /\ pre' = Snapshot
    /\ hist' = [hist EXCEPT !.dk = 0]
    /\ UNCHANGED <<ld, slots_, cache_, dirty_, last_seq_, pc, src, hdr, next, dst,
                   budget, crashes, commits>>

\* loads and stores of media on which several slots can go bad at once: every
\* bit of byte k flips in the slots of S, between two calls
NextWear ==
    \/ NextAny
    \/ \E S \in (SUBSET (0..(slots_ - 1))) \ {{}}, k \in 1..PayloadSize :
          op # "corrupt_slots" /\ CorruptSlots(S, k, 255)

SpecWear == Init /\ [][NextWear]_vars

(***************************************************************************)
(* Read faults: FRAM::read returns an error in some of the reads of a      *)
(* load (spi_device_transmit fails, fram.cpp line 131).                    *)
(***************************************************************************)
\* a load reads each header, each payload whose header passes, and the best
\* payload once more
ReadPositions == 1..(2 * MaxSlots + 1)

\* load(dst) with the reads at the positions F failing
LoadReadFails ==
    \E F \in (SUBSET ReadPositions) \ {{}} :
        /\ faults + Cardinality(F) <= MaxFaults
        /\ Load(F)
        /\ faults' = faults + Cardinality(F)

\* loads of arbitrary prior media, with and without failing reads
NextRead == LoadOk \/ LoadReadFails

SpecRead == InitAny /\ [][NextRead]_vars

(***************************************************************************)
(* Read faults in store_immediate: line 109 drops the result of            *)
(* fram_.read, and after a failed read the local Header h, which has no    *)
(* initializer (line 108), holds whatever its stack bytes were: zeroes,    *)
(* a header read earlier, or anything else.                                *)
(***************************************************************************)
GarbageHeaders(m, n) ==
    {ZeroHeader}
    \cup {m[i].hdr : i \in 0..(n - 1)}
    \cup {Header(STORE_MAGIC, version_, 0, s, PayloadSize, U32(0)) :
             s \in {U32(0), U32Max}}

\* store_immediate(v) with the header reads at the positions F failing
StoreImmediateReadFails(v, F, g) ==
    /\ Idle
    /\ F # {}
    /\ faults + Cardinality(F) <= MaxFaults
    /\ Scan("store_immediate", v, F, g)
    /\ faults' = faults + Cardinality(F)

NextScan ==
    \/ NextAny
    \/ \E v \in Values, F \in SUBSET (1..slots_),
          g \in GarbageHeaders(media, slots_) : StoreImmediateReadFails(v, F, g)

SpecScan == Init /\ [][NextScan]_vars

(***************************************************************************)
(* A load in a second task that shares the store with the task calling     *)
(* store_immediate and takes no mutex (as the load in app_main, part_001   *)
(* lines 45-47).  The tasks interleave between FRAM::read and FRAM::write   *)
(* calls; the SPI bus serializes the transfers themselves.                 *)
(***************************************************************************)
\* load(dst) is called: lines 76-78
LoadBegin ==
    /\ ld.pc \in {"idle", "done"}
    /\ budget > 0
    /\ budget' = budget - 1
    /\ ld' = [NoLoad EXCEPT !.pc = IF slots_ > 0 THEN "header" ELSE "final"]
    /\ UNCHANGED <<slots_, media, cache_, dirty_, last_seq_, pc, op, src, hdr, next,
                   ret, dst, io, pre, hist, crashes, faults, commits>>

\* the loop goes on to slot i + 1, or ends
LoadAdvance(l) ==
    [l EXCEPT !.i = @ + 1, !.pc = IF l.i + 1 < slots_ THEN "header" ELSE "final"]

\* lines 83-84: the header of slot i is read and checked
LoadHeaderRead ==
    /\ ld.pc = "header"
    /\ LET r == FramRead(media, slots_, SlotAddr(ld.i), TRUE, HeaderSize, FALSE)
       IN  ld' = IF r.err # ESP_OK \/ ~MagicVersionMatch(r.data)
                    \/ r.data.len # PayloadSize
                 THEN LoadAdvance(ld)
                 ELSE [ld EXCEPT !.h = r.data, !.pc = "payload"]
    /\ UNCHANGED <<slots_, media, cache_, dirty_, last_seq_, pc, op, src, hdr, next,
                   ret, dst, io, pre, hist, budget, crashes, faults, commits>>

\* lines 85-92: the payload of slot i is read into buf, its crc compared with
\* h.crc and the slot taken as the best when its seq is higher
LoadPayloadRead ==
    /\ ld.pc = "payload"
    /\ LET r == FramRead(media, slots_, (SlotAddr(ld.i) + HeaderSize) % AddrMod,
                         TRUE, ld.h.len, FALSE)
       IN  ld' = IF r.err # ESP_OK \/ ~CrcMatches(r.data, ld.h)
                 THEN LoadAdvance(ld)
                 ELSE IF ~ld.found \/ SeqGt(ld.h.seq, ld.best_hdr.seq)
                 THEN LoadAdvance([ld EXCEPT !.found = TRUE, !.best_hdr = ld.h,
                                             !.best_addr = SlotAddr(ld.i),
                                             !.ver = r.data])
                 ELSE LoadAdvance(ld)
    /\ UNCHANGED <<slots_, media, cache_, dirty_, last_seq_, pc, op, src, hdr, next,
                   ret, dst, io, pre, hist, budget, crashes, faults, commits>>

\* lines 95-97: not found, or the payload at best_addr is read into dst
LoadFinish ==
    /\ ld.pc = "final"
    /\ ld' = IF ~ld.found
              THEN [ld EXCEPT !.pc = "done", !.ret = ESP_ERR_NOT_FOUND]
              ELSE LET r == FramRead(media, slots_,
                                     (ld.best_addr + HeaderSize) % AddrMod, TRUE,
                                     PayloadSize, FALSE)
                   IN  [ld EXCEPT !.pc = "done", !.ret = r.err,
                                  !.dst = IF r.err = ESP_OK THEN r.data ELSE @]
    /\ UNCHANGED <<slots_, media, cache_, dirty_, last_seq_, pc, op, src, hdr, next,
                   ret, dst, io, pre, hist, budget, crashes, faults, commits>>

\* one task calls store_immediate while another calls load
NextRace ==
    \/ \E v \in Values : StoreImmediate(v)
    \/ PayloadWritten
    \/ HeaderWritten
    \/ LoadBegin
    \/ LoadHeaderRead
    \/ LoadPayloadRead
    \/ LoadFinish

SpecRace == Init /\ [][NextRace]_vars

(***************************************************************************)
(* The driver called directly (fram.h lines 77-100), with any address,    *)
(* buffer pointer and length.  len is a size_t of 32 bits, <<hi, lo>>.     *)
(***************************************************************************)
DriverAddrs ==
    {0, BASE_ADDR + HeaderSize, FRAM_SIZE_BYTES - PayloadSize, FRAM_SIZE_BYTES - 1,
     FRAM_SIZE_BYTES, AddrMod - 1}
DriverLens ==
    {U32(0), U32(1), U32(PayloadSize), U32(FRAM_SIZE_BYTES),
     U32(FRAM_SIZE_BYTES + 1), <<65535, 65535 - PayloadSize>>, U32Max}

\* FRAM::read(addr, buf, len).  A len that does not fit the device and yet
\* passes line 118 leads to a READ transfer of 3 + len (wrapped) bytes and to a
\* memcpy of len bytes out of a short vector: the call fails in the transfer or
\* does not return.
DriverRead(addr, buf, len, fail) ==
    /\ Idle
    /\ LET r == IF len[1] = 0
                THEN FramRead(media, slots_, addr, buf, len[2], fail)
                ELSE IF ~ArgsOk(addr, buf, len)
                THEN [err |-> ESP_ERR_INVALID_ARG, log |-> [spi |-> <<>>]]
                ELSE [err |-> IF fail THEN ESP_FAIL ELSE "no_return",
                      log |-> [spi |-> <<"READ">>]]
       IN  /\ ret' = r.err
           /\ io' = <<[cmd |-> "read", addr |-> addr, buf |-> buf, len |-> len,
                       outcome |-> IF fail THEN "read_fails" ELSE "ok",
                       err |-> r.err, spi |-> r.log.spi]>>
    /\ op' = "fram_read"
    /\ pre' = Snapshot
    /\ budget' = budget - 1
    /\ UNCHANGED <<ld, slots_, media, cache_, dirty_, last_seq_, pc, src, hdr, next, dst,
                   hist, crashes, faults, commits>>

\* FRAM::write(addr, buf, len), buf holding the bytes data.  A len that does not
\* fit the device and yet passes line 139 leads to WREN and then to a memcpy of
\* len bytes into a short vector: the call fails in WREN or does not return.
DriverWrite(addr, buf, len, data, outcome) ==
    /\ Idle
    /\ LET w == IF len[1] = 0
                THEN FramWrite(media, slots_, addr, buf, len[2], data, outcome)
                ELSE IF ~ArgsOk(addr, buf, len)
                THEN [err |-> ESP_ERR_INVALID_ARG, media |-> media,
                      log |-> [spi |-> <<>>]]
                ELSE [err |-> IF outcome = "wren_fails" THEN ESP_FAIL
                              ELSE "no_return",
                      media |-> media, log |-> [spi |-> <<"WREN">>]]
       IN  /\ ret' = w.err
           /\ media' = w.media
           /\ io' = <<[cmd |-> "write", addr |-> addr, buf |-> buf, len |-> len,
                       outcome |-> outcome, err |-> w.err, spi |-> w.log.spi]>>
    /\ op' = "fram_write"
    /\ pre' = Snapshot
    /\ budget' = budget - 1
    /\ UNCHANGED <<ld, slots_, cache_, dirty_, last_seq_, pc, src, hdr, next, dst,
                   hist, crashes, faults, commits>>

NextDriver ==
    \/ \E addr \in DriverAddrs, buf \in BOOLEAN, len \in DriverLens,
          fail \in BOOLEAN : DriverRead(addr, buf, len, fail)
    \/ \E addr \in DriverAddrs, buf \in BOOLEAN, len \in DriverLens,
          data \in Values, outcome \in WriteOutcomes :
          DriverWrite(addr, buf, len, data, outcome)

\* the driver keeps nothing from one call to the next: one call from each
\* initial state
InitDriver ==
    /\ \E n \in 1..MaxSlots : Constructed(n)
    /\ media = [i \in 0..(slots_ - 1) |-> BlankSlot]
    /\ pre = Snapshot
    /\ budget = 1

SpecDriver == InitDriver /\ [][NextDriver]_vars

(***************************************************************************)
(* Properties.                                                             *)
(***************************************************************************)
\* a store_immediate (called directly or by flush) has just returned ESP_OK
Committed ==
    /\ op \in {"store_immediate", "flush"}
    /\ pc = "idle"
    /\ ret = ESP_OK
    /\ commits = pre.commits + 1

\* C1: a load that directly follows a successful store_immediate(v) returns
\* ESP_OK and yields v, whatever the media held before.
C1_RoundTrip ==
    (op = "load" /\ pre.op = "store_immediate" /\ pre.ret = ESP_OK)
        => (ret = ESP_OK /\ dst = src)

C3_CommitOrder ==
    op \in {"store_immediate", "flush"} =>
        /\ Len(Writes) <= 2
        /\ Len(Writes) >= 1 =>
              /\ Writes[1].addr = (next + HeaderSize) % AddrMod
              /\ Writes[1].len = PayloadSize
        /\ Len(Writes) = 2 =>
              /\ Writes[1].err = ESP_OK
              /\ Writes[2].addr = next
              /\ Writes[2].len = HeaderSize
        /\ pc = "header" => (Len(Writes) = 1 /\ Writes[1].err = ESP_OK)
        /\ (Len(Writes) >= 1 /\ Writes[1].err # ESP_OK) =>
              /\ pc = "idle"
              /\ ret = Writes[1].err
              /\ Len(Writes) = 1
              /\ media[SlotIndex(next)].hdr = pre.media[SlotIndex(next)].hdr

\* a store_immediate has returned the error of its payload write, which had
\* already changed the payload on the media (WRDI failed)
C3_Witness ==
    /\ op = "store_immediate"
    /\ pc = "idle"
    /\ ret = ESP_FAIL
    /\ Len(Writes) = 1
    /\ Writes[1].err = ESP_FAIL
    /\ media[SlotIndex(next)].payload = src
    /\ pre.media[SlotIndex(next)].payload # src

\* the slot load selects on media m, as a set (empty when it finds none)
LoadPick(m, n) ==
    LET st == LoadScan(m, n, {}, 0,
                       [found |-> FALSE, best_hdr |-> ZeroHeader, best_addr |-> 0,
                        io |-> <<>>])
    IN  IF st.found THEN {SlotIndex(st.best_addr)} ELSE {}

\* C4: with two or more slots, the slot store_immediate is about to write is
\* not the slot load currently selects, whatever the media hold.
C4_TargetNotAuthoritative ==
    (slots_ >= 2 /\ pc = "payload") => SlotIndex(next) \notin LoadPick(media, slots_)

\* C5: the header a successful store_immediate or flush writes carries the seq of
\* the record that was authoritative before the call plus 1, or 1 when no valid
\* record existed.
C5_SeqPlusOne ==
    Committed =>
        hdr.seq = IF hist.auth.found THEN SeqInc(hist.auth.seq) ELSE U32(1)

\* C6: load returns ESP_ERR_NOT_FOUND exactly when no slot is valid, and
\* otherwise ESP_OK with the payload of a valid slot of the highest seq.
C6_LoadSelectsMax ==
    op = "load" =>
        IF ValidSlots(media, slots_) = {}
        THEN ret = ESP_ERR_NOT_FOUND
        ELSE /\ ret = ESP_OK
             /\ dst \in AuthOf(media, ValidSlots(media, slots_)).values

\* load chose between two valid slots with different payloads, the newer one
\* lying before the older one
C6_Witness ==
    /\ op = "load"
    /\ ret = ESP_OK
    /\ \E i, j \in ValidSlots(media, slots_) :
          /\ i < j
          /\ Higher(media[i].hdr.seq, media[j].hdr.seq)
          /\ media[i].payload # media[j].payload
          /\ dst = media[i].payload

\* C7: from blank media, the i-th successful write has seq i and lands in slot
\* (i - 1) mod slot_count, which is the slot after the authoritative one, or
\* slot 0 when no valid slot existed.
C7_Rotation ==
    Committed =>
        /\ hdr.seq = U32(commits)
        /\ next = BASE_ADDR + ((commits - 1) % slots_) * slot_size_
        /\ media[(commits - 1) % slots_] = [hdr |-> hdr, payload |-> src]
        /\ SlotIndex(next) =
              IF hist.auth.found
              THEN ((CHOOSE i \in hist.auth.slots : TRUE) + 1) % slots_
              ELSE 0

\* the third write to a store of two slots has come back to slot 0
C7_Witness ==
    /\ Committed
    /\ slots_ = 2
    /\ commits = 3
    /\ media[0].hdr.seq = U32(3)
    /\ media[1].hdr.seq = U32(2)

\* crc32 tells every value the callers store from every array of bytes that
\* differs from it in exactly one byte
CrcDetectsByteChange ==
    \A v \in Values : \A k \in 1..PayloadSize : \A b \in 0..255 :
        b # v[k] => crc32([v EXCEPT ![k] = b]) # crc32(v)

\* C8: a valid slot one byte of whose payload is corrupted fails the checksum,
\* and load then returns the newest valid record among the other slots, or
\* ESP_ERR_NOT_FOUND when there is none.
C8_CorruptionDetected ==
    /\ CrcDetectsByteChange
    /\ (op = "corrupt" /\ hist.hit_valid) => ~Valid(media, hist.hit)
    /\ (op = "load" /\ pre.op = "corrupt" /\ hist.hit_valid) =>
          IF hist.auth.found
          THEN ret = ESP_OK /\ dst \in hist.auth.values
          ELSE ret = ESP_ERR_NOT_FOUND

\* the newest record was corrupted and load returned the one before it
C8_Witness ==
    /\ op = "load"
    /\ pre.op = "corrupt"
    /\ hist.hit_valid
    /\ ret = ESP_OK
    /\ dst # media[hist.hit].payload
    /\ \A j \in ValidSlots(media, slots_) :
          Higher(media[hist.hit].hdr.seq, media[j].hdr.seq)

\* C9: store_deferred issues no FRAM read or write, and a successful flush after
\* one or more store_deferred calls issues exactly one payload write and one
\* header write, which commit the last deferred value.
C9_DeferredThenFlush ==
    /\ op = "store_deferred" => (io = <<>> /\ media = pre.media /\ pc = "idle")
    /\ (op = "flush" /\ pre.op = "store_deferred" /\ Committed) =>
          /\ Len(Writes) = 2
          /\ Writes[1].addr = next + HeaderSize /\ Writes[1].len = PayloadSize
          /\ Writes[2].addr = next /\ Writes[2].len = HeaderSize
          /\ hist.dk >= 1
          /\ src = hist.dv
          /\ cache_ = hist.dv
          /\ media[SlotIndex(next)] = [hdr |-> hdr, payload |-> hist.dv]
          /\ \A i \in 0..(slots_ - 1) :
                i # SlotIndex(next) => media[i] = pre.media[i]

\* a flush committed after two or more store_deferred calls in a row
C9_Witness ==
    /\ op = "flush"
    /\ pre.op = "store_deferred"
    /\ Committed
    /\ hist.dk >= 2
    /\ media[SlotIndex(next)].payload = hist.dv

\* C10: flush on a clean store returns ESP_OK, issues no FRAM read or write and
\* leaves the media, the cache and the dirty flag as they were.
C10_FlushCleanNoIo ==
    (op = "flush" /\ ~pre.dirty) =>
        /\ ret = ESP_OK
        /\ pc = "idle"
        /\ io = <<>>
        /\ media = pre.media
        /\ cache_ = pre.cache
        /\ dirty_ = pre.dirty

\* flush was called on a store that a commit had left clean
C10_Witness ==
    /\ op = "flush"
    /\ ~pre.dirty
    /\ pre.op = "store_immediate"
    /\ pre.ret = ESP_OK
    /\ ret = ESP_OK

\* C11: a flush that returns an error leaves the dirty flag set and the cache as
\* it was, the flush after it writes that same cached value again, and the dirty
\* flag goes from set to clear only in a call that committed.
C11_FlushFailureKeepsDirty ==
    /\ (op = "flush" /\ pc = "idle" /\ ret # ESP_OK) =>
          /\ pre.dirty
          /\ dirty_
          /\ cache_ = pre.cache
          /\ commits = pre.commits
    /\ (op = "flush" /\ pre.op = "flush" /\ pre.ret # ESP_OK) =>
          /\ src = pre.cache
          /\ Len(Reads) = slots_
          /\ pc = "idle" =>
                /\ Len(Writes) >= 1
                /\ Writes[1].addr = (next + HeaderSize) % AddrMod
    /\ (pre.dirty /\ ~dirty_) => Committed

\* a flush whose header write failed was followed by a flush that committed the
\* same deferred value
C11_Witness ==
    /\ op = "flush"
    /\ pre.op = "flush"
    /\ pre.ret = ESP_FAIL
    /\ Committed
    /\ hist.dk >= 1
    /\ src = hist.dv
    /\ ~dirty_
    /\ \E i \in 0..(slots_ - 1) : media[i] = [hdr |-> hdr, payload |-> hist.dv]

\* C12: whatever reads fail during a load, its scan reads the header of every
\* slot and it returns ESP_ERR_NOT_FOUND, or ESP_OK with the payload of a valid
\* record; it returns nothing else.
C12_LoadAbsorbsReadFailures ==
    op = "load" =>
        /\ \A i \in 0..(slots_ - 1) :
              \E k \in 1..Len(Reads) :
                  Reads[k].addr = SlotAddr(i) /\ Reads[k].len = HeaderSize
        /\ ret \in {ESP_OK, ESP_ERR_NOT_FOUND}
        /\ ret = ESP_OK => \E i \in ValidSlots(media, slots_) : dst = media[i].payload

\* C13: when the payload write succeeds and the header write returns an error,
\* store_immediate returns that error and the record that was authoritative
\* before the call still is; a load that follows returns its value.
C13_HeaderFailureKeepsPrevious ==
    /\ (op \in {"store_immediate", "flush"} /\ pc = "idle" /\ Len(Writes) = 2
            /\ Writes[2].err # ESP_OK) =>
          /\ Writes[1].err = ESP_OK
          /\ ret = Writes[2].err
          /\ AuthOf(media, ValidSlots(media, slots_)) = hist.auth
    /\ (op = "load" /\ pre.op \in {"store_immediate", "flush"}
            /\ Len(pre.werr) = 2 /\ pre.werr[2] # ESP_OK) =>
          IF hist.auth.found
          THEN ret = ESP_OK /\ dst \in hist.auth.values
          ELSE ret = ESP_ERR_NOT_FOUND

\* C14: from blank media, the write of generation slot_count + 1 overwrites the
\* slot of generation 1, whose record is then in no slot, and every later load
\* returns ESP_ERR_NOT_FOUND or the payload of a valid record of a later
\* generation, whatever slots are corrupted afterwards.
C14_OldestOverwritten ==
    /\ (Committed /\ commits = slots_ + 1) =>
          /\ SlotIndex(next) = 0
          /\ pre.media[0].hdr.seq = U32(1)
          /\ media[0].hdr.seq = U32(slots_ + 1)
    /\ commits >= slots_ + 1 =>
          \A i \in 0..(slots_ - 1) : media[i].hdr.seq # U32(1)
    /\ (op = "load" /\ commits >= slots_ + 1) =>
          \/ ret = ESP_ERR_NOT_FOUND
          \/ /\ ret = ESP_OK
             /\ \E i \in ValidSlots(media, slots_) :
                   /\ Higher(media[i].hdr.seq, U32(1))
                   /\ dst = media[i].payload

\* three generations were written to two slots, both slots were then corrupted,
\* and load found nothing
C14_Witness ==
    /\ op = "load"
    /\ pre.op = "corrupt_slots"
    /\ slots_ = 2
    /\ commits = 3
    /\ ValidSlots(media, slots_) = {}
    /\ ret = ESP_ERR_NOT_FOUND
    /\ media[0].hdr.seq = U32(3)

\* every record on media m was written under another version than version_
OtherVersionOnly(m) ==
    /\ \E i \in DOMAIN m : m[i].hdr.magic = STORE_MAGIC
    /\ \A i \in DOMAIN m :
          \/ m[i] = BlankSlot
          \/ m[i].hdr.magic = STORE_MAGIC /\ m[i].hdr.version # version_

\* C15: when every record on the media carries another version, load returns
\* ESP_ERR_NOT_FOUND and store_immediate writes seq 1 to slot 0.
C15_VersionIsolation ==
    /\ (op = "load" /\ OtherVersionOnly(media)) => ret = ESP_ERR_NOT_FOUND
    /\ (op = "store_immediate" /\ OtherVersionOnly(pre.media)) =>
          /\ hdr.seq = U32(1)
          /\ hdr.version = version_
          /\ next = BASE_ADDR
          /\ Committed => media[0] = [hdr |-> hdr, payload |-> src]

\* a store_immediate has replaced, in slot 0, a record of another version
\* whose seq was higher than 1, another such record being in slot 1
C15_Witness ==
    /\ op = "store_immediate"
    /\ Committed
    /\ slots_ = 2
    /\ OtherVersionOnly(pre.media)
    /\ \A i \in 0..1 : pre.media[i].hdr.version = version_ + 1
    /\ Higher(pre.media[0].hdr.seq, U32(1))
    /\ media[0].hdr.seq = U32(1)
    /\ media[0].hdr.version = version_

\* the SPI commands of a call to the driver in the log
Spi(e) == e.spi

\* C16: a FRAM::write that passes its argument checks transmits WREN first,
\* WRITE only after WREN succeeded, and WRDI before it returns.
C16_WriteEnableBracket ==
    \A k \in 1..Len(Writes) :
        LET e == Writes[k]
        IN  (op = "fram_write" /\ ArgsOk(e.addr, e.buf, e.len) /\ e.len[1] = 0) =>
                IF e.outcome = "wren_fails"
                THEN Spi(e) = <<"WREN">>
                ELSE Spi(e) = <<"WREN", "WRITE", "WRDI">>

\* [addr, addr + len) does not fit the device
BeyondDevice(addr, len) == len[1] > 0 \/ addr + len[2] > FRAM_SIZE_BYTES

\* C17: FRAM::read and FRAM::write return ESP_ERR_INVALID_ARG and transmit
\* nothing when buf is null, len is 0 or addr + len exceeds the device size, and
\* they accept a range that ends at the last byte of the device.
C17_ArgumentChecks ==
    op \in {"fram_read", "fram_write"} =>
        \A k \in 1..Len(io) :
            LET e == io[k]
            IN  IF ~e.buf \/ e.len = U32(0) \/ BeyondDevice(e.addr, e.len)
                THEN e.err = ESP_ERR_INVALID_ARG /\ Spi(e) = <<>>
                ELSE e.err # ESP_ERR_INVALID_ARG /\ Spi(e) # <<>>

\* C18: load issues no FRAM::write and leaves the media, the deferred cache,
\* the dirty flag and last_seq_ as they were, whether it returns ESP_OK or
\* ESP_ERR_NOT_FOUND.
C18_LoadReadOnly ==
    op = "load" =>
        /\ pc = "idle"
        /\ Writes = <<>>
        /\ \A k \in 1..Len(io) : io[k].cmd = "read" /\ io[k].spi = <<"READ">>
        /\ media = pre.media
        /\ cache_ = pre.cache
        /\ dirty_ = pre.dirty
        /\ last_seq_ = pre.last_seq
        /\ commits = pre.commits

\* a load returned a committed value while the cache held a different, deferred
\* one
C18_Witness ==
    /\ op = "load"
    /\ ret = ESP_OK
    /\ dirty_
    /\ cache_ # dst
    /\ last_seq_ # U32(0)
    /\ pre.op = "store_deferred"

\* C19: dirty_ is set exactly when store_deferred has been called since
\* construction and no store_immediate or flush has returned ESP_OK after the
\* latest store_deferred, whatever writes failed.
C19_DirtyStateMachine ==
    dirty_ <=> (hist.def /\ commits = hist.dc)

\* a store_immediate called on a dirty store failed and the store is still
\* dirty, holding the deferred value
C19_Witness ==
    /\ op = "store_immediate"
    /\ pc = "idle"
    /\ ret = ESP_FAIL
    /\ pre.dirty
    /\ dirty_
    /\ cache_ = hist.dv
    /\ src # cache_

\* the store_immediate that has just returned, or that the latest load
\* followed, found a valid record of seq 2^32 - 1 authoritative
AfterHighestSeq ==
    /\ hist.auth.found
    /\ hist.auth.seq = U32Max
    /\ \/ op = "store_immediate" /\ Committed
       \/ op = "load" /\ pre.op = "store_immediate" /\ pre.ret = ESP_OK

\* the record store_immediate wrote has seq 0, and after a load dst holds the
\* payload of a valid record of seq 2^32 - 1
WrappedAndOlderLoaded ==
    /\ hdr.seq = U32(0)
    /\ media[SlotIndex(next)] = [hdr |-> hdr, payload |-> src]
    /\ op = "load" =>
          /\ ret = ESP_OK
          /\ \E j \in ValidSlots(media, slots_) :
                /\ media[j].hdr.seq = U32Max
                /\ j # SlotIndex(next)
                /\ dst = media[j].payload

\* C20, as stated: when the best record has seq 2^32 - 1, a successful
\* store_immediate writes a record of seq 0 and a following load returns the
\* older record, of seq 2^32 - 1.
C20_Wraparound_Original == AfterHighestSeq => WrappedAndOlderLoaded

\* C20, amended: the same for a store of two or more slots; with one slot the
\* record of seq 0 replaces the only record and load returns it.
C20_Wraparound ==
    AfterHighestSeq =>
        IF slots_ >= 2
        THEN WrappedAndOlderLoaded
        ELSE /\ hdr.seq = U32(0)
             /\ op = "load" => (ret = ESP_OK /\ dst = src /\ media[0].hdr.seq = U32(0))

\* after a store_immediate that wrapped the seq to 0, load returned the older
\* value, which differs from the one just written
C20_Witness ==
    /\ AfterHighestSeq
    /\ op = "load"
    /\ slots_ >= 2
    /\ ret = ESP_OK
    /\ dst # src
    /\ media[SlotIndex(next)].hdr.seq = U32(0)
    /\ media[SlotIndex(next)].payload = src

\* C21: a store_immediate(v2) that succeeds after store_deferred(v1) leaves v2 in
\* the cache and the store clean, having written v2 to one slot and nothing
\* else; the flush after it issues no I/O; a store_immediate that fails after
\* store_deferred(v1) leaves v1 in the cache and the store dirty.
C21_StoreImmediateForcesClean ==
    /\ (op = "store_immediate" /\ pre.op = "store_deferred" /\ Committed) =>
          /\ pre.dirty
          /\ pre.cache = hist.dv
          /\ cache_ = src
          /\ ~dirty_
          /\ media[SlotIndex(next)] = [hdr |-> hdr, payload |-> src]
          /\ \A i \in 0..(slots_ - 1) :
                i # SlotIndex(next) => media[i] = pre.media[i]
    /\ (op = "flush" /\ pre.op = "store_immediate" /\ pre.ret = ESP_OK) =>
          /\ pc = "idle"
          /\ ret = ESP_OK
          /\ io = <<>>
          /\ media = pre.media
          /\ cache_ = pre.cache
          /\ ~dirty_
    /\ (op = "store_immediate" /\ pre.op = "store_deferred" /\ pc = "idle"
            /\ ret # ESP_OK) =>
          /\ cache_ = hist.dv
          /\ cache_ = pre.cache
          /\ dirty_

\* store_deferred(v1), a successful store_immediate(v2) and a flush have been
\* called, v1 differs from v2 and no slot holds v1
C21_Witness ==
    /\ op = "flush"
    /\ pre.op = "store_immediate"
    /\ pre.ret = ESP_OK
    /\ hist.dv # NoValue
    /\ hist.dc + 1 = commits
    /\ hist.dv # cache_
    /\ io = <<>>
    /\ \A i \in 0..(slots_ - 1) : media[i].payload # hist.dv

\* the slots whose header read failed in the scan of the current store_immediate
FailedSlots == {k - 1 : k \in {j \in 1..Len(Reads) : Reads[j].err # ESP_OK}}

\* what store_immediate plans when it leaves the slots of S out of its scan
PlanWithout(m, S) ==
    StorePlan([i \in 0..(slots_ - 1) |-> IF i \in S THEN BlankSlot ELSE m[i]],
              slots_, {}, ZeroHeader, src)

\* C22: in a store_immediate one of whose header reads failed, the seq and the
\* target slot are those of a scan that leaves the failed slots out, and on
\* success the record written has a seq higher than every record that was valid
\* when the call began.
C22_FailedHeaderReadIgnored ==
    (op = "store_immediate" /\ FailedSlots # {}) =>
        /\ hdr.seq = PlanWithout(pre.media, FailedSlots).h.seq
        /\ next = PlanWithout(pre.media, FailedSlots).next
        /\ Committed =>
              \A i \in ValidSlots(pre.media, slots_) :
                  Higher(hdr.seq, pre.media[i].hdr.seq)

\* C23: from blank media, whatever writes fail and wherever power is lost, no
\* two valid slots carry the same seq, and a valid record of seq s lies in slot
\* (s - 1) mod slot_count.
C23_SeqUnique ==
    /\ \A i, j \in ValidSlots(media, slots_) :
          i # j => media[i].hdr.seq # media[j].hdr.seq
    /\ \A i \in ValidSlots(media, slots_) :
          /\ media[i].hdr.seq[1] = 0
          /\ media[i].hdr.seq[2] >= 1
          /\ i = (media[i].hdr.seq[2] - 1) % slots_

\* C24: with two or more slots, the value a successful load hands to the caller
\* is the payload whose crc its scan verified against the header it selected,
\* also when store_immediate calls of another task interleave with the load.
C24_LoadReturnsVerifiedPayload ==
    (slots_ >= 2 /\ ld.pc = "done" /\ ld.ret = ESP_OK) =>
        /\ ld.dst = ld.ver
        /\ crc32(ld.dst) = ld.best_hdr.crc

\* C25: when base + slot_count * slot_size fits in the 16-bit address type, every
\* read and write of load and store_immediate is the header (at
\* base + i * slot_size) or the payload (sizeof(Header) further) of one slot
\* i < slot_count, lies inside [base, base + slot_count * slot_size), and a
\* store_immediate changes no slot but the one it writes to.
RegionEnd == BASE_ADDR + slots_ * slot_size_

InSlot(e, i) ==
    \/ e.addr = BASE_ADDR + i * slot_size_ /\ e.len = HeaderSize
    \/ e.addr = BASE_ADDR + i * slot_size_ + HeaderSize /\ e.len = PayloadSize

C25_AddressConfinement ==
    (RegionEnd < AddrMod /\ op \in {"load", "store_immediate"}) =>
        /\ \A k \in 1..Len(io) :
              /\ \E i \in 0..(slots_ - 1) : InSlot(io[k], i)
              /\ io[k].addr >= BASE_ADDR
              /\ io[k].addr + io[k].len <= RegionEnd
        /\ \A k \in 1..Len(Writes) :
              /\ InSlot(Writes[k], (next - BASE_ADDR) \div slot_size_)
              /\ \A j \in 0..(slots_ - 1) :
                    ~InSlot(Writes[k], j) => media[j] = pre.media[j]

\* a store_immediate has written payload and header of slot 1 after scanning
\* two slots, and slot 0 still holds the valid record it held before
C25_Witness ==
    /\ slots_ = 2
    /\ op = "store_immediate" /\ ret = ESP_OK
    /\ Len(Reads) = 2 /\ Len(Writes) = 2
    /\ next = BASE_ADDR + slot_size_
    /\ Writes[1].addr = BASE_ADDR + slot_size_ + HeaderSize
    /\ Writes[2].addr = BASE_ADDR + slot_size_
    /\ 0 \in ValidSlots(media, slots_)
    /\ media[1] # pre.media[1]

====
